---- MODULE Spec2Model ----
(***************************************************************************)
(* Model of package googleauth (jarodmeng/googleauth): the token cache     *)
(* (tokenCacheFile, tokenFromFile, saveToken), the interactive             *)
(* authorization-code flow (getTokenFromWeb) and their orchestration       *)
(* (getClient).  Every system call and every library call that can fail    *)
(* is one step of the calling process, so that invocations can be          *)
(* interleaved.                                                            *)
(***************************************************************************)
EXTENDS Naturals, Integers, Sequences, FiniteSets, TLC

\* ---------------------------------------------------------------- bounds
NumAccess   == 1   \* distinct access credentials the token endpoint issues

\* The processes that can call getClient; the first is the one that runs
\* when invocations follow one another.
Procs == { "p1", "p2" }
Main  == "p1"


Nil == "nil"

\* ------------------------------------------------------- logical names
\* A logical token-file name is a string, modelled as a sequence of
\* one-character strings so that escaping can be computed character-wise.
Names == { <<"a">>, <<"b", "/">>, <<>> }

\* url.QueryEscape, per character: a letter is kept, a space becomes "+",
\* any other character is percent-encoded.
EscapeChar(c) ==
    IF c = "/" THEN <<"%", "2", "F">>
    ELSE IF c = " " THEN <<"+">>
    ELSE IF c = "%" THEN <<"%", "2", "5">>
    ELSE <<c>>

RECURSIVE QueryEscape(_)
QueryEscape(s) ==
    IF s = <<>> THEN <<>> ELSE EscapeChar(Head(s)) \o QueryEscape(Tail(s))

\* ------------------------------------------------------------- paths
\* A cleaned path: the directory's components, and the base name of the
\* entry in it (base = <<>>: the directory itself).
HomeDir == <<"home">>

\* filepath.Join(dir, elem) for an elem without separators: joins and
\* cleans, so that "" and "." name dir itself and ".." names its parent.
Join(dir, elem) ==
    IF elem = <<>> \/ elem = <<".">> THEN [dir |-> dir, base |-> <<>>]
    ELSE IF elem = <<".", ".">>
         THEN [dir |-> SubSeq(dir, 1, Len(dir) - 1), base |-> <<>>]
         ELSE [dir |-> dir, base |-> elem]

tokenCacheDir == HomeDir \o <<".credentials">>

\* A slip in tokenCacheFile: the cache file has one fixed name, whatever
\* the logical name.
CachePathFixed(tokenFile) == Join(tokenCacheDir, << "a" >>)

\* The path tokenCacheFile returns for a logical name.
CachePath(tokenFile) == Join(tokenCacheDir, QueryEscape(tokenFile))

IsDirPath(path) == path.base = <<>>

\* The file names that can appear in the credentials directory.
FileNames == { CachePath(n).base : n \in Names } \ { <<>> }

\* ------------------------------------------------------------ tokens
AccessTable == << "ya29.A", "ya29.B", "ya29.C" >>
IssuedAccess == { AccessTable[i] : i \in 1..NumAccess }

\* time.Time: the instant (an index into the RFC3339 table below; the first
\* is the zero time), and whether a monotonic clock reading is kept.
Time(i, m) == [inst |-> i, mono |-> m]
ZeroTime == Time(1, FALSE)

\* oauth2.Token: the four exported fields and the unexported raw response.
Token(a, ty, r, e, raw) ==
    [access |-> a, type |-> ty, refresh |-> r, expiry |-> e, raw |-> raw]

\* The shapes of a token response: with or without a token type, a refresh
\* credential and an expires_in (the expiry is then now + expires_in, with
\* a monotonic reading; otherwise the zero time).
TokenShapes ==
    { << "Bearer", "1//r", Time(2, TRUE) >>, << "Bearer", "", Time(2, TRUE) >>,
      << "", "1//r", ZeroTime >>, << "", "", ZeroTime >> }

\* The tokens config.Exchange can return: the access credential is never
\* empty, and the raw server response is attached.
ExchangeTokens ==
    { Token(a, sh[1], sh[2], sh[3], "response") :
        a \in IssuedAccess, sh \in TokenShapes }

\* --------------------------------------------------------- token codec
\* File content: no bytes at all, bytes that are not JSON, a JSON document
\* cut short, or a JSON object (a function from its keys to JSON values).
EMPTY   == [kind |-> "empty"]
GARBAGE == [kind |-> "garbage"]
TRUNC   == [kind |-> "truncated"]
Obj(f)  == [kind |-> "object", fields |-> f]

JStr(s) == [t |-> "string", v |-> s]
JNum    == [t |-> "number", v |-> "42"]

\* Time.MarshalJSON / UnmarshalJSON: the instant as RFC 3339 text.
RFC3339 == << "0001-01-01T00:00:00Z", "2026-11-01T01:00:00Z",
              "2026-10-01T00:00:00Z" >>

TimeFormat(e) == RFC3339[e.inst]

IsTimeText(s) == \E i \in 1..Len(RFC3339) : RFC3339[i] = s

\* The parsed time carries the instant and no monotonic reading.
TimeParse(s) == Time(CHOOSE i \in 1..Len(RFC3339) : RFC3339[i] = s, FALSE)

\* The keys of oauth2.Token's JSON form, from its struct tags.
TokenKeys == { "access_token", "token_type", "refresh_token", "expiry" }

\* A slip in the token's JSON form: the expiry is not written.
EncodeKeysNoExpiry(t) ==
    { "access_token" }
      \cup (IF t.type # "" THEN { "token_type" } ELSE {})
      \cup (IF t.refresh # "" THEN { "refresh_token" } ELSE {})

\* json.NewEncoder(f).Encode(token): access_token and expiry are always
\* written, token_type and refresh_token are "omitempty", raw is unexported.
EncodeKeys(t) ==
    { "access_token", "expiry" }
      \cup (IF t.type # "" THEN { "token_type" } ELSE {})
      \cup (IF t.refresh # "" THEN { "refresh_token" } ELSE {})

EncodeField(t, k) ==
    CASE k = "access_token"  -> JStr(t.access)
      [] k = "token_type"    -> JStr(t.type)
      [] k = "refresh_token" -> JStr(t.refresh)
      [] k = "expiry"        -> JStr(TimeFormat(t.expiry))

Encode(t) == Obj([k \in EncodeKeys(t) |-> EncodeField(t, k)])

\* json.NewDecoder(f).Decode(t) into an empty Token: the error, or Nil.
FieldError(f, k) ==
    /\ k \in DOMAIN f
    /\ \/ f[k].t # "string"
       \/ k = "expiry" /\ ~IsTimeText(f[k].v)

\* Decode reads the first JSON value of the stream and leaves what follows
\* it unread, so bytes left behind a shorter document do not matter.
DecodeErr(d) ==
    CASE d.kind = "empty"     -> "EOF"
      [] d.kind = "garbage"   -> "syntax"
      [] d.kind = "truncated" -> "unexpected EOF"
      [] d.kind \in { "object", "overwritten" } ->
           IF \E k \in TokenKeys : FieldError(d.fields, k)
           THEN "unmarshal" ELSE Nil

\* A field absent from the object keeps the zero value of the empty Token.
DecodeStr(f, k) == IF k \in DOMAIN f THEN f[k].v ELSE ""

DecodeTok(d) ==
    Token(DecodeStr(d.fields, "access_token"),
          DecodeStr(d.fields, "token_type"),
          DecodeStr(d.fields, "refresh_token"),
          IF "expiry" \in DOMAIN d.fields
          THEN TimeParse(d.fields["expiry"].v) ELSE ZeroTime,
          Nil)

\* ------------------------------------------------------- file system
NoFile == [kind |-> "absent"]
File(d, m) == [kind |-> "file", data |-> d, mode |-> m]

\* The state of the .credentials directory: absent, or present with a mode.
DirStates == { "absent", "0700", "0755", "0500" }

\* Cache-file contents that may predate the program's first run.
StoredToken == Token("ya29.old", "Bearer", "1//old", Time(3, FALSE), Nil)

InitData ==
    { EMPTY, GARBAGE, Obj([k \in {} |-> JNum]), Encode(StoredToken),
      Obj([k \in {"refresh_token"} |-> JStr("1//old")]),
      Obj([k \in {"access_token"} |-> JNum]) }

InitFiles ==
    { NoFile }
      \cup { File(d, "rw") : d \in InitData }
      \cup { File(Encode(StoredToken), m) : m \in {"ro", "none"} }

\* A slip in tokenFromFile: the file is opened with O_CREATE, so that a
\* missing file reads as an empty one and the load fails in the decoder.
OpenErrCreates(path, d, fs) ==
    IF IsDirPath(path)
    THEN IF path.dir = tokenCacheDir /\ d = "absent" THEN "ENOENT" ELSE Nil
    ELSE IF d = "absent" \/ fs[path.base].kind = "absent" THEN "EOF"
         ELSE IF fs[path.base].mode = "none" THEN "EACCES"
         ELSE Nil

\* os.Open(path): Nil, or the error.
OpenErr(path, d, fs) ==
    IF IsDirPath(path)
    THEN IF path.dir = tokenCacheDir /\ d = "absent" THEN "ENOENT" ELSE Nil
    ELSE IF d = "absent" \/ fs[path.base].kind = "absent" THEN "ENOENT"
         ELSE IF fs[path.base].mode = "none" THEN "EACCES"
         ELSE Nil

\* os.Create(path), that is open(O_RDWR|O_CREATE|O_TRUNC, 0666): Nil, or
\* the error.  An absent .credentials directory is one that MkdirAll could
\* not make, so nothing can be created in its place either.
CreateErr(path, d, fs) ==
    IF IsDirPath(path)
    THEN IF path.dir = tokenCacheDir /\ d = "absent" THEN "EACCES" ELSE "EISDIR"
    ELSE IF d = "absent" THEN "ENOENT"
         ELSE IF fs[path.base].kind = "absent"
              THEN IF d = "0500" THEN "EACCES" ELSE Nil
              ELSE IF fs[path.base].mode = "rw" THEN Nil ELSE "EACCES"

\* The file os.Create leaves behind: truncated, or new and empty.
Created(f) == IF f.kind = "absent" THEN File(EMPTY, "rw") ELSE File(EMPTY, f.mode)

\* The length of a file's content.  The documents the program writes differ
\* in length by the members that "omitempty" leaves out.
Size(d) ==
    CASE d.kind = "empty"       -> 0
      [] d.kind = "overwritten" -> d.size
      [] d.kind = "object"      ->
           40 + (IF "token_type" \in DOMAIN d.fields THEN 22 ELSE 0)
              + (IF "refresh_token" \in DOMAIN d.fields THEN 25 ELSE 0)
      [] OTHER                  -> 1

\* A write of document new at offset 0 of a file holding old: the handle of
\* os.Create is not in append mode, so a longer old content keeps its end.
Overwrite(old, new) ==
    IF Size(old) > Size(new)
    THEN [kind |-> "overwritten", fields |-> new.fields, size |-> Size(old)]
    ELSE new

\* What a read of the open handle returns: the bytes, or an error.
ReadErr(path) == IF IsDirPath(path) THEN "EISDIR" ELSE Nil

\* ---------------------------------------------------------- the state
\* The revisions of getTokenFromWeb: "print" always prints the consent
\* URL; "browser" launches a browser and prints the URL when that fails.
Revisions == { "print", "browser" }

\* Authorization codes the operator may type.
Codes == { "4/x", "4/y" }

VARIABLES
    rev,        \* the revision of the package that is running
    userOK,     \* whether user.Current finds the invoking user
    dir,        \* the state of the .credentials directory
    files,      \* the files of the .credentials directory, by name
    pc,         \* each process's position in getClient
    tokenFile,  \* getClient's argument
    cacheFile,  \* getClient's cacheFile
    fh,         \* the *os.File f of tokenFromFile / saveToken
    code,       \* getTokenFromWeb's code
    tok,        \* getClient's tok
    ret,        \* what the last getClient returned
    trace,      \* the steps the current or last invocation has taken
    configErr,  \* the error CreateClient returned before calling getClient
    pre,        \* the file system as it was when the invocation began
    persisted,  \* the names a cache-miss invocation has returned a client for
    lastSaved   \* per file, the token written last and the token of the saveToken that returned last

vars == << rev, userOK, dir, files, pc, tokenFile, cacheFile, fh, code, tok,
           ret, trace, configErr, pre, persisted, lastSaved >>

NoTok    == [kind |-> "nil"]
NoPath   == [dir |-> <<>>, base |-> <<>>]
NoClient == [kind |-> "nil"]
Client(t) == [kind |-> "client", tok |-> t]
NoErr    == [from |-> "", kind |-> Nil]
Err(from, kind) == [from |-> from, kind |-> kind]
NoRet    == [client |-> NoClient, err |-> NoErr]

\* One step of an invocation, as the trace records it: the call, its input
\* and its error (Nil when it succeeded).
Ev(name, arg, res) == [ev |-> name, arg |-> arg, res |-> res]

Init ==
    /\ rev \in Revisions
    /\ userOK \in BOOLEAN
    /\ dir \in DirStates
    /\ files \in [FileNames -> InitFiles]
    /\ dir = "absent" => \A f \in FileNames : files[f] = NoFile
    /\ pc = [p \in Procs |-> "idle"]
    /\ tokenFile = [p \in Procs |-> <<>>]
    /\ cacheFile = [p \in Procs |-> NoPath]
    /\ fh = [p \in Procs |-> "none"]
    /\ code = [p \in Procs |-> ""]
    /\ tok = [p \in Procs |-> NoTok]
    /\ ret = [p \in Procs |-> NoRet]
    /\ trace = [p \in Procs |-> <<>>]
    /\ configErr = [p \in Procs |-> Nil]
    /\ pre = [p \in Procs |-> [dir |-> dir, files |-> files, persisted |-> {}]]
    /\ persisted = {}
    /\ lastSaved = [f \in FileNames |-> [written |-> NoTok, completed |-> NoTok]]

\* ----------------------------------------------------------- helpers
Log(p, e) == trace' = [trace EXCEPT ![p] = Append(@, e)]

\* getClient returns (client, err) to its caller.
Return(p, c, e) ==
    /\ ret' = [ret EXCEPT ![p] = [client |-> c, err |-> e]]
    /\ pc' = [pc EXCEPT ![p] = "idle"]

Goto(p, l) == pc' = [pc EXCEPT ![p] = l]

\* ------------------------------------------------------------ getClient
\* A caller invokes getClient(ctx, config, n).
Call(p, n) ==
    /\ pc[p] = "idle"
    /\ Goto(p, "tokenCacheFile")
    /\ tokenFile' = [tokenFile EXCEPT ![p] = n]
    /\ cacheFile' = [cacheFile EXCEPT ![p] = NoPath]
    /\ fh' = [fh EXCEPT ![p] = "none"]
    /\ code' = [code EXCEPT ![p] = ""]
    /\ tok' = [tok EXCEPT ![p] = NoTok]
    /\ ret' = [ret EXCEPT ![p] = NoRet]
    /\ trace' = [trace EXCEPT ![p] = <<>>]
    /\ pre' = [pre EXCEPT ![p] = [dir |-> dir, files |-> files,
                                  persisted |-> persisted]]
    /\ UNCHANGED << rev, userOK, lastSaved, dir, files, persisted >>

\* google.ConfigFromJSON(secret, scope): Nil, or the error.  A blob is the
\* JSON of an installed application's credentials, or something else.
Secrets == { "installed", "not JSON" }
ConfigErr(secret) == IF secret = "installed" THEN Nil ELSE "config"

\* The secret files a caller may name: a missing one, or one holding a blob.
SecretFiles == { "missing" } \cup Secrets

\* CreateClient or CreateClientFromFile returns (nil, err) before getClient
\* is called.
Refuse(p, n, e) ==
    /\ pc[p] = "idle"
    /\ configErr' = [configErr EXCEPT ![p] = e]
    /\ tokenFile' = [tokenFile EXCEPT ![p] = n]
    /\ cacheFile' = [cacheFile EXCEPT ![p] = NoPath]
    /\ fh' = [fh EXCEPT ![p] = "none"]
    /\ code' = [code EXCEPT ![p] = ""]
    /\ tok' = [tok EXCEPT ![p] = NoTok]
    /\ ret' = [ret EXCEPT ![p] = NoRet]
    /\ trace' = [trace EXCEPT ![p] = <<>>]
    /\ pre' = [pre EXCEPT ![p] = [dir |-> dir, files |-> files,
                                  persisted |-> persisted]]
    /\ UNCHANGED << rev, userOK, lastSaved, dir, files, pc, persisted >>

\* A slip in CreateClient: getClient is called before the error of
\* ConfigFromJSON is looked at.
CreateClientLateCheck(p, secret, n) ==
    /\ configErr' = [configErr EXCEPT ![p] = ConfigErr(secret)]
    /\ Call(p, n)

\* CreateClient(secret, tokenFile, scope): the configuration is parsed, and
\* getClient is called when that succeeded.
CreateClient(p, secret, n) ==
    IF ConfigErr(secret) # Nil
    THEN Refuse(p, n, ConfigErr(secret))
    ELSE /\ configErr' = [configErr EXCEPT ![p] = Nil]
         /\ Call(p, n)

\* CreateClientFromFile(secretFile, tokenFile, scope): the file is read, and
\* CreateClient is called with its content when that succeeded.
CreateClientFromFile(p, secretFile, n) ==
    IF secretFile = "missing"
    THEN Refuse(p, n, "read")
    ELSE CreateClient(p, secretFile, n)

\* What CreateClient returns: its own error, or what getClient returned.
CreateClientRet(p) ==
    IF configErr[p] # Nil
    THEN [client |-> NoClient, err |-> Err("CreateClient", configErr[p])]
    ELSE ret[p]

\* A slip in tokenCacheFile: the directory is made with mode 0755.
MkdirAllWorldReadable(d) == IF d = "absent" THEN { "0755", "absent" } ELSE { d }

\* os.MkdirAll(tokenCacheDir, 0700): an existing directory is left as it
\* is; an absent one is made with mode 0700, or the call fails.
MkdirAll(d) == IF d = "absent" THEN { "0700", "absent" } ELSE { d }

\* cacheFile, err := tokenCacheFile(tokenFile); the error of user.Current
\* is returned, the error of MkdirAll is dropped.
TokenCacheFile(p) ==
    /\ pc[p] = "tokenCacheFile"
    /\ \/ /\ ~userOK
          /\ Return(p, NoClient, Err("tokenCacheFile", "user"))
          /\ UNCHANGED << dir, cacheFile >>
       \/ /\ userOK
          /\ dir' \in MkdirAll(dir)
          /\ cacheFile' = [cacheFile EXCEPT ![p] = CachePath(tokenFile[p])]
          /\ Goto(p, "open")
          /\ UNCHANGED ret
    /\ UNCHANGED << rev, userOK, configErr, lastSaved, files, tokenFile, fh, code, tok, trace, pre, persisted >>

\* A slip in getClient's test of the load error: the interactive flow is
\* entered whether or not the load failed.
AfterLoadAlwaysWeb(e) == "web"

\* getClient: tok, err := tokenFromFile(cacheFile); if err != nil the
\* interactive flow follows, otherwise the client is built from tok.
AfterLoad(e) == IF e # Nil THEN "web" ELSE "client"

\* A slip in getClient: the error of os.Open is returned to the caller.
OsOpenFatal(p) ==
    /\ pc[p] = "open"
    /\ LET e == OpenErr(cacheFile[p], dir, files) IN
         IF e # Nil
         THEN /\ fh' = [fh EXCEPT ![p] = "nil"]
              /\ trace' = [trace EXCEPT ![p] = Append(@, Ev("open", Nil, e))]
              /\ ret' = [ret EXCEPT ![p] = [client |-> NoClient,
                                            err |-> Err("tokenFromFile", e)]]
              /\ pc' = [pc EXCEPT ![p] = "idle"]
         ELSE /\ fh' = [fh EXCEPT ![p] = "open"]
              /\ trace' = [trace EXCEPT ![p] = Append(@, Ev("open", Nil, Nil))]
              /\ pc' = [pc EXCEPT ![p] = "decode"]
              /\ UNCHANGED ret
    /\ UNCHANGED << rev, userOK, configErr, lastSaved, dir, files, tokenFile, cacheFile, code, tok, pre, persisted >>

\* tokenFromFile: f, err := os.Open(file); on an error the deferred
\* f.Close() runs on the nil file and the error is returned, which sends
\* getClient to getTokenFromWeb.
OsOpen(p) ==
    /\ pc[p] = "open"
    /\ LET e == OpenErr(cacheFile[p], dir, files) IN
         IF e # Nil
         THEN /\ fh' = [fh EXCEPT ![p] = "nil"]
              /\ Log(p, Ev("open", Nil, e))
              /\ Goto(p, AfterLoad(e))
              /\ UNCHANGED ret
         ELSE /\ fh' = [fh EXCEPT ![p] = "open"]
              /\ Log(p, Ev("open", Nil, Nil))
              /\ Goto(p, "decode")
              /\ UNCHANGED ret
    /\ UNCHANGED << rev, userOK, configErr, lastSaved, dir, files, tokenFile, cacheFile, code, tok, pre, persisted >>

\* The error of the load step: of the read, or of the decoding.
LoadErr(path, fs) ==
    IF ReadErr(path) # Nil THEN ReadErr(path) ELSE DecodeErr(fs[path.base].data)

\* tokenFromFile: err = json.NewDecoder(f).Decode(t), then the deferred
\* f.Close(); getClient goes on to config.Client when err is nil and to
\* getTokenFromWeb otherwise.
Decode(p) ==
    /\ pc[p] = "decode"
    /\ LET e == LoadErr(cacheFile[p], files) IN
         IF e # Nil
         THEN /\ Log(p, Ev("decode", Nil, e))
              /\ Goto(p, AfterLoad(e))
              /\ UNCHANGED tok
         ELSE /\ Log(p, Ev("decode", Nil, Nil))
              /\ tok' = [tok EXCEPT ![p] = DecodeTok(files[cacheFile[p].base].data)]
              /\ Goto(p, AfterLoad(e))
    /\ fh' = [fh EXCEPT ![p] = "closed"]
    /\ UNCHANGED << rev, userOK, configErr, lastSaved, dir, files, tokenFile, cacheFile, code, ret, pre, persisted >>

\* ------------------------------------------------------ getTokenFromWeb
\* authURL := config.AuthCodeURL("state-token", oauth2.AccessTypeOffline),
\* then the first print: the consent URL itself in the "print" revision, a
\* bare prompt in the "browser" revision.
AuthPrompt(p) ==
    /\ pc[p] = "web"
    /\ IF rev = "print"
       THEN Log(p, Ev("stdout", "url", Nil)) /\ Goto(p, "scan")
       ELSE Log(p, Ev("stdout", "prompt", Nil)) /\ Goto(p, "openurl")
    /\ UNCHANGED << rev, userOK, configErr, lastSaved, dir, files, tokenFile, cacheFile, fh, code, tok, ret, pre, persisted >>

\* A slip in getTokenFromWeb: the error of browser.OpenURL is returned.
OpenURLFatal(p) ==
    /\ pc[p] = "openurl"
    /\ \/ /\ trace' = [trace EXCEPT ![p] = Append(@, Ev("browser", "url", Nil))]
          /\ pc' = [pc EXCEPT ![p] = "scan"]
          /\ UNCHANGED ret
       \/ /\ trace' = [trace EXCEPT ![p] = Append(@, Ev("browser", "url", "failed"))]
          /\ ret' = [ret EXCEPT ![p] = [client |-> NoClient,
                                        err |-> Err("getTokenFromWeb", "browser")]]
          /\ pc' = [pc EXCEPT ![p] = "idle"]
    /\ UNCHANGED << rev, userOK, configErr, lastSaved, dir, files, tokenFile, cacheFile, fh, code, tok, pre, persisted >>

\* A slip in getTokenFromWeb: nothing is printed when the launch fails.
OpenURLSilent(p) ==
    /\ pc[p] = "openurl"
    /\ \/ trace' = [trace EXCEPT ![p] = Append(@, Ev("browser", "url", Nil))]
       \/ trace' = [trace EXCEPT ![p] = Append(@, Ev("browser", "url", "failed"))]
    /\ pc' = [pc EXCEPT ![p] = "scan"]
    /\ UNCHANGED << rev, userOK, configErr, lastSaved, dir, files, tokenFile, cacheFile, fh, code, tok, ret, pre, persisted >>

\* err := browser.OpenURL(authURL): when it fails the consent URL is
\* printed; either way the flow goes on to read the code.
OpenURL(p) ==
    /\ pc[p] = "openurl"
    /\ \/ Log(p, Ev("browser", "url", Nil))
       \/ trace' = [trace EXCEPT ![p] =
                      @ \o << Ev("browser", "url", "failed"), Ev("stdout", "url", Nil) >>]
    /\ Goto(p, "scan")
    /\ UNCHANGED << rev, userOK, configErr, lastSaved, dir, files, tokenFile, cacheFile, fh, code, tok, ret, pre, persisted >>

\* A slip in getTokenFromWeb: the error of fmt.Scan is ignored and the
\* empty code is exchanged.
ScanErrIgnored(p) ==
    /\ pc[p] = "scan"
    /\ \/ /\ trace' = [trace EXCEPT ![p] = Append(@, Ev("scan", "", "failed"))]
          /\ UNCHANGED code
       \/ \E c \in Codes :
            /\ trace' = [trace EXCEPT ![p] = Append(@, Ev("scan", c, Nil))]
            /\ code' = [code EXCEPT ![p] = c]
    /\ pc' = [pc EXCEPT ![p] = "exchange"]
    /\ UNCHANGED << rev, userOK, configErr, lastSaved, dir, files, tokenFile, cacheFile, fh, tok, ret, pre, persisted >>

\* fmt.Scan(&code): the code the operator typed, or the read error, which
\* getTokenFromWeb and then getClient return.
Scan(p) ==
    /\ pc[p] = "scan"
    /\ \/ /\ Log(p, Ev("scan", "", "failed"))
          /\ Return(p, NoClient, Err("getTokenFromWeb", "input"))
          /\ UNCHANGED code
       \/ \E c \in Codes :
            /\ Log(p, Ev("scan", c, Nil))
            /\ code' = [code EXCEPT ![p] = c]
            /\ Goto(p, "exchange")
            /\ UNCHANGED ret
    /\ UNCHANGED << rev, userOK, configErr, lastSaved, dir, files, tokenFile, cacheFile, fh, tok, pre, persisted >>

\* A slip in getTokenFromWeb: the error of config.Exchange is dropped and
\* the flow goes on to save an empty token.
ExchangeErrDropped(p) ==
    /\ pc[p] = "exchange"
    /\ \/ /\ trace' = [trace EXCEPT ![p] = Append(@, Ev("exchange", code[p], "failed"))]
          /\ tok' = [tok EXCEPT ![p] = Token("", "", "", ZeroTime, Nil)]
       \/ \E t \in ExchangeTokens :
            /\ trace' = [trace EXCEPT ![p] = Append(@, Ev("exchange", code[p], Nil))]
            /\ tok' = [tok EXCEPT ![p] = t]
    /\ pc' = [pc EXCEPT ![p] = "create"]
    /\ UNCHANGED << rev, userOK, configErr, lastSaved, dir, files, tokenFile, cacheFile, fh, code, ret, pre, persisted >>

\* tok, err := config.Exchange(oauth2.NoContext, code): the token, or the
\* error, which getTokenFromWeb and then getClient return.
Exchange(p) ==
    /\ pc[p] = "exchange"
    /\ \/ /\ Log(p, Ev("exchange", code[p], "failed"))
          /\ Return(p, NoClient, Err("getTokenFromWeb", "exchange"))
          /\ UNCHANGED tok
       \/ \E t \in ExchangeTokens :
            /\ Log(p, Ev("exchange", code[p], Nil))
            /\ tok' = [tok EXCEPT ![p] = t]
            /\ Goto(p, "create")
            /\ UNCHANGED ret
    /\ UNCHANGED << rev, userOK, configErr, lastSaved, dir, files, tokenFile, cacheFile, fh, code, pre, persisted >>

\* ------------------------------------------------------------ saveToken
\* A slip in getClient: the error of saveToken is dropped and the client
\* is built from the unsaved token.
OsCreateErrDropped(p) ==
    /\ pc[p] = "create"
    /\ LET e == CreateErr(cacheFile[p], dir, files) IN
         IF e # Nil
         THEN /\ fh' = [fh EXCEPT ![p] = "nil"]
              /\ trace' = [trace EXCEPT ![p] = Append(@, Ev("create", Nil, e))]
              /\ pc' = [pc EXCEPT ![p] = "client"]
              /\ UNCHANGED files
         ELSE /\ fh' = [fh EXCEPT ![p] = "open"]
              /\ trace' = [trace EXCEPT ![p] = Append(@, Ev("create", Nil, Nil))]
              /\ files' = [files EXCEPT ![cacheFile[p].base] = Created(@)]
              /\ pc' = [pc EXCEPT ![p] = "encode"]
    /\ UNCHANGED << rev, userOK, configErr, lastSaved, dir, tokenFile, cacheFile, code, tok, ret, pre, persisted >>

\* f, err := os.Create(file); on an error the deferred f.Close() runs on
\* the nil file, and saveToken and then getClient return the error.
OsCreate(p) ==
    /\ pc[p] = "create"
    /\ LET e == CreateErr(cacheFile[p], dir, files) IN
         IF e # Nil
         THEN /\ fh' = [fh EXCEPT ![p] = "nil"]
              /\ Log(p, Ev("create", Nil, e))
              /\ Return(p, NoClient, Err("saveToken", e))
              /\ UNCHANGED files
         ELSE /\ fh' = [fh EXCEPT ![p] = "open"]
              /\ Log(p, Ev("create", Nil, Nil))
              /\ files' = [files EXCEPT ![cacheFile[p].base] = Created(@)]
              /\ Goto(p, "encode")
              /\ UNCHANGED ret
    /\ UNCHANGED << rev, userOK, configErr, lastSaved, dir, tokenFile, cacheFile, code, tok, pre, persisted >>

\* What a failed write can leave in the file.
PartialWrites == { EMPTY, TRUNC }

\* A slip in saveToken: the token is encoded but never reaches the file.
EncodeWriteLost(p) ==
    /\ pc[p] = "encode"
    /\ \/ /\ Log(p, Ev("write", Nil, Nil))
          /\ lastSaved' = [lastSaved EXCEPT ![cacheFile[p].base].written = tok[p]]
       \/ /\ Log(p, Ev("write", Nil, "failed"))
          /\ UNCHANGED lastSaved
    /\ Goto(p, "close")
    /\ UNCHANGED << rev, userOK, configErr, dir, files, tokenFile, cacheFile, fh, code, tok, ret, pre, persisted >>

\* A slip in saveToken: the file is opened in append mode, so that a write
\* lands behind what another writer has put there.
EncodeWriteAppend(p) ==
    /\ pc[p] = "encode"
    /\ \/ /\ files' = [files EXCEPT ![cacheFile[p].base].data =
                                     IF @.kind \notin { "object", "overwritten" }
                                     THEN Encode(tok[p])
                                     ELSE [kind |-> "overwritten",
                                           fields |-> @.fields,
                                           size |-> Size(@) + Size(Encode(tok[p]))]]
          /\ lastSaved' = [lastSaved EXCEPT ![cacheFile[p].base].written = tok[p]]
          /\ Log(p, Ev("write", Nil, Nil))
       \/ \E d \in PartialWrites :
            /\ files' = [files EXCEPT ![cacheFile[p].base].data = d]
            /\ Log(p, Ev("write", Nil, "failed"))
            /\ UNCHANGED lastSaved
    /\ Goto(p, "close")
    /\ UNCHANGED << rev, userOK, configErr, dir, tokenFile, cacheFile, fh, code, tok, ret, pre, persisted >>

\* err = json.NewEncoder(f).Encode(token): the encoded token is written at
\* the start of the file through this process's own descriptor, or the
\* write fails part-way.  The deferred f.Close() is still to run.
EncodeWrite(p) ==
    /\ pc[p] = "encode"
    /\ \/ /\ files' = [files EXCEPT ![cacheFile[p].base].data =
                                     Overwrite(@, Encode(tok[p]))]
          /\ lastSaved' = [lastSaved EXCEPT ![cacheFile[p].base].written = tok[p]]
          /\ Log(p, Ev("write", Nil, Nil))
       \/ \E d \in PartialWrites :
            /\ files' = [files EXCEPT ![cacheFile[p].base].data = d]
            /\ Log(p, Ev("write", Nil, "failed"))
            /\ UNCHANGED lastSaved
    /\ Goto(p, "close")
    /\ UNCHANGED << rev, userOK, configErr, dir, tokenFile, cacheFile, fh, code, tok, ret, pre, persisted >>

\* A slip in saveToken: the deferred close is missing, the descriptor stays
\* open when saveToken returns.
CloseForgotten(p) ==
    /\ pc[p] = "close"
    /\ IF trace[p][Len(trace[p])].res = Nil
       THEN /\ Goto(p, "client")
            /\ lastSaved' = [lastSaved EXCEPT ![cacheFile[p].base].completed = tok[p]]
            /\ UNCHANGED ret
       ELSE /\ Return(p, NoClient, Err("saveToken", "write"))
            /\ UNCHANGED lastSaved
    /\ UNCHANGED << rev, userOK, configErr, dir, files, tokenFile, cacheFile, fh, code, tok, trace, pre, persisted >>

\* defer f.Close(), then return err: saveToken hands the result of the write
\* to getClient, which returns the error or goes on to build the client.
Close(p) ==
    /\ pc[p] = "close"
    /\ fh' = [fh EXCEPT ![p] = "closed"]
    /\ IF trace[p][Len(trace[p])].res = Nil
       THEN /\ Goto(p, "client")
            /\ lastSaved' = [lastSaved EXCEPT ![cacheFile[p].base].completed = tok[p]]
            /\ UNCHANGED ret
       ELSE /\ Return(p, NoClient, Err("saveToken", "write"))
            /\ UNCHANGED lastSaved
    /\ UNCHANGED << rev, userOK, configErr, dir, files, tokenFile, cacheFile, code, tok, trace, pre, persisted >>

\* The invocation took the cache-miss path and saveToken returned nil.
SavedNow(p) == \E i \in DOMAIN trace[p] : trace[p][i] = Ev("write", Nil, Nil)

\* return config.Client(ctx, tok), nil
ReturnClient(p) ==
    /\ pc[p] = "client"
    /\ Return(p, Client(tok[p]), NoErr)
    /\ persisted' = IF SavedNow(p) THEN persisted \cup { tokenFile[p] } ELSE persisted
    /\ UNCHANGED << rev, userOK, configErr, lastSaved, dir, files, tokenFile, cacheFile, fh, code, tok, trace, pre >>

\* ------------------------------------------------------ specifications
Idle(p) == pc[p] = "idle"

Step(p) ==
    \/ TokenCacheFile(p)
    \/ OsOpen(p)
    \/ Decode(p)
    \/ AuthPrompt(p)
    \/ OpenURL(p)
    \/ Scan(p)
    \/ Exchange(p)
    \/ OsCreate(p)
    \/ EncodeWrite(p)
    \/ Close(p)
    \/ ReturnClient(p)

\* Invocations one after another, as a single-threaded caller makes them:
\* the next one begins when the last one has returned.
\* A caller enters through CreateClientFromFile, which hands the content of
\* a readable file to CreateClient.
Next ==
    \/ \E n \in Names, f \in SecretFiles : CreateClientFromFile(Main, f, n)
    \/ Step(Main)

Spec == Init /\ [][Next]_vars

\* Two processes that call for the same logical name with no coordination,
\* starting with no cache file: their steps interleave in every order.  Each
\* process is one run of a program that creates its client once.
SharedName == << "a" >>

NotCalled(p) == pc[p] = "idle" /\ ret[p] = NoRet /\ configErr[p] = Nil

InitConc ==
    /\ Init
    /\ dir \in { "absent", "0700" }
    /\ \A f \in FileNames : files[f] = NoFile

NextConc ==
    \/ \E p \in Procs, f \in SecretFiles :
          NotCalled(p) /\ CreateClientFromFile(p, f, SharedName)
    \/ \E p \in Procs : Step(p)

SpecConc == InitConc /\ [][NextConc]_vars

\* ------------------------------------------------- reading the trace
Events(p) == { trace[p][i] : i \in DOMAIN trace[p] }

Did(p, name) == \E e \in Events(p) : e.ev = name

\* A step of the interactive flow: a print, a browser launch, a read of
\* the code, an exchange.
InteractiveSteps == { "stdout", "browser", "scan", "exchange" }
Interactive(p) == \E e \in Events(p) : e.ev \in InteractiveSteps

\* A step that writes the cache file.
Wrote(p) == Did(p, "create") \/ Did(p, "write")

Count(p, name) == Cardinality({ i \in DOMAIN trace[p] : trace[p][i].ev = name })

\* getClient has returned to its caller.
Returned(p) == pc[p] = "idle" /\ ret[p] # NoRet

\* An invocation is running or has returned, and its path was resolved.
Resolved(p) ==
    /\ pc[p] # "tokenCacheFile"
    /\ pc[p] = "idle" => (Returned(p) /\ ret[p].err.from # "tokenCacheFile")

\* The cache file of the invocation, as it was when getClient was called.
FileAtCall(p) == pre[p].files[cacheFile[p].base]

\* When getClient was called the cache file existed, could be read and
\* decoded to a token record.
DecodableAtCall(p) ==
    /\ ~IsDirPath(cacheFile[p])
    /\ FileAtCall(p).kind = "file"
    /\ FileAtCall(p).mode # "none"
    /\ DecodeErr(FileAtCall(p).data) = Nil

StoredAtCall(p) == DecodeTok(FileAtCall(p).data)

\* A valid token record has an access credential.
ValidAtCall(p) == DecodableAtCall(p) /\ StoredAtCall(p).access # ""

\* C1: an invocation for a name whose cache file exists and decodes to a
\* valid token record takes no interactive step, leaves the cache file as
\* it was, and returns the client built from the stored record.
C1_CacheHit ==
    \A p \in Procs :
        (Resolved(p) /\ ValidAtCall(p)) =>
            /\ ~Interactive(p)
            /\ ~Wrote(p)
            /\ files = pre[p].files
            /\ pc[p] \in { "open", "decode", "client", "idle" }
            /\ Returned(p) => ret[p] = [client |-> Client(StoredAtCall(p)),
                                        err |-> NoErr]

C1_Witness ==
    \E p \in Procs :
        /\ Returned(p) /\ Resolved(p) /\ ValidAtCall(p)
        /\ ret[p].client = Client(StoredToken)
        /\ trace[p] = << Ev("open", Nil, Nil), Ev("decode", Nil, Nil) >>

\* The four fields of a token record: two times are equal when they are
\* the same instant.
SameToken(a, b) ==
    /\ a.access = b.access
    /\ a.refresh = b.refresh
    /\ a.type = b.type
    /\ a.expiry.inst = b.expiry.inst

\* When getClient was called there was no cache file at the resolved path.
MissingAtCall(p) == ~IsDirPath(cacheFile[p]) /\ FileAtCall(p).kind = "absent"

\* Every step of the interactive flow has succeeded.
FlowSucceeded(p) == \E e \in Events(p) : e.ev = "exchange" /\ e.res = Nil

\* The cache file of the invocation now loads as the invocation's token.
PersistedNow(p) ==
    /\ ~IsDirPath(cacheFile[p])
    /\ OpenErr(cacheFile[p], dir, files) = Nil
    /\ LoadErr(cacheFile[p], files) = Nil
    /\ SameToken(DecodeTok(files[cacheFile[p].base].data), tok[p])

\* The steps of the cache-hit path.
HitPath == { "tokenCacheFile", "open", "decode", "client", "idle" }

\* C2 as stated: an invocation for a name with no cache file in which every
\* interactive step succeeds persists the token of the flow.
C2_Original ==
    \A p \in Procs :
        (Returned(p) /\ Resolved(p) /\ MissingAtCall(p) /\ FlowSucceeded(p))
            => PersistedNow(p)

\* C2, amended: an invocation for a name with no cache file in which every
\* interactive step and the save succeed runs the interactive flow exactly
\* once and leaves its token at the resolved path, and every later
\* invocation for that name is a cache hit with no interactive step.
C2_MissThenHit ==
    \A p \in Procs :
        /\ (Resolved(p) /\ MissingAtCall(p) /\ SavedNow(p)) =>
              /\ Count(p, "scan") = 1
              /\ Count(p, "exchange") = 1
              /\ Count(p, "create") = 1
              /\ PersistedNow(p)
              /\ Returned(p) => /\ ret[p] = [client |-> Client(tok[p]), err |-> NoErr]
                                /\ tokenFile[p] \in persisted
        /\ (tokenFile[p] \in pre[p].persisted /\ (pc[p] # "idle" \/ Returned(p))) =>
              /\ pc[p] \in HitPath
              /\ ~Interactive(p)
              /\ ~Wrote(p)
              /\ Returned(p) => /\ ret[p].err = NoErr
                                /\ ret[p].client.kind = "client"
                                /\ ret[p].client.tok.access \in IssuedAccess

C2_Witness ==
    \E p \in Procs :
        /\ Returned(p)
        /\ tokenFile[p] \in pre[p].persisted
        /\ trace[p] = << Ev("open", Nil, Nil), Ev("decode", Nil, Nil) >>
        /\ ret[p].client.kind = "client"

\* C3: an invocation for a name whose cache file decodes to a record with
\* no access credential runs the interactive flow and never builds a client
\* without it.
C3_NoAccessNoHit ==
    \A p \in Procs :
        (Resolved(p) /\ DecodableAtCall(p) /\ StoredAtCall(p).access = "") =>
            ((pc[p] = "client" \/ (Returned(p) /\ ret[p].client # NoClient))
                => Interactive(p))

\* C4: when the exchange fails, getClient returns that error and no client,
\* and has neither created nor changed the cache file.
C4_ExchangeFailure ==
    \A p \in Procs :
        (\E e \in Events(p) : e.ev = "exchange" /\ e.res # Nil) =>
            /\ Returned(p)
            /\ ret[p] = [client |-> NoClient,
                         err |-> Err("getTokenFromWeb", "exchange")]
            /\ ~Wrote(p)
            /\ files = pre[p].files

C4_Witness ==
    \E p \in Procs :
        /\ Returned(p)
        /\ \E e \in Events(p) : e.ev = "exchange" /\ e.res # Nil
        /\ ~IsDirPath(cacheFile[p])
        /\ FileAtCall(p).kind = "file"

\* C5: after a failed browser launch the consent URL is printed, the code
\* is read, and the exchange is attempted with the code that was read.
C5_BrowserFailure ==
    \A p \in Procs : \A i \in DOMAIN trace[p] :
        trace[p][i] = Ev("browser", "url", "failed") =>
            LET n == Len(trace[p]) IN
            /\ n >= i + 1
            /\ trace[p][i + 1] = Ev("stdout", "url", Nil)
            /\ n = i + 1 => pc[p] = "scan"
            /\ n >= i + 2 => trace[p][i + 2].ev = "scan"
            /\ (n = i + 2 /\ trace[p][i + 2].res = Nil) =>
                  pc[p] = "exchange" /\ code[p] = trace[p][i + 2].arg
            /\ (n >= i + 3 /\ trace[p][i + 2].res = Nil) =>
                  /\ trace[p][i + 3].ev = "exchange"
                  /\ trace[p][i + 3].arg = trace[p][i + 2].arg

C5_Witness ==
    \E p \in Procs :
        /\ \E e \in Events(p) : e = Ev("browser", "url", "failed")
        /\ \E e \in Events(p) : e.ev = "exchange" /\ e.arg = "4/y"

\* Before step i of the trace, the consent URL was printed.
URLShownBefore(p, i) ==
    \E j \in 1..(i - 1) : trace[p][j] = Ev("stdout", "url", Nil)

\* Before step i of the trace, the browser was launched.
LaunchedBefore(p, i) ==
    \E j \in 1..(i - 1) : trace[p][j] = Ev("browser", "url", Nil)

\* C6 as stated: whenever the code is read, the consent URL has been
\* printed before.
C6_Original ==
    \A p \in Procs : \A i \in DOMAIN trace[p] :
        trace[p][i].ev = "scan" => URLShownBefore(p, i)

\* C6, amended: whenever the code is read, something has been printed
\* before; the print holds the consent URL exactly when the browser launch
\* failed or the revision launches no browser, and is a bare prompt when
\* the launch succeeded.
C6_PromptBeforeRead ==
    \A p \in Procs : \A i \in DOMAIN trace[p] :
        trace[p][i].ev = "scan" =>
            /\ \E j \in 1..(i - 1) : trace[p][j].ev = "stdout"
            /\ URLShownBefore(p, i) <=> ~LaunchedBefore(p, i)

C6_Witness ==
    \E p \in Procs :
        /\ rev = "browser"
        /\ \E i \in DOMAIN trace[p] :
              /\ trace[p][i].ev = "scan"
              /\ URLShownBefore(p, i)
              /\ \E j \in 1..(i - 1) : trace[p][j] = Ev("browser", "url", "failed")

\* The functions whose error getClient may return.
ErrSources == { "", "tokenCacheFile", "getTokenFromWeb", "saveToken" }

\* C7: a failed load (open, read or decode) is followed by the interactive
\* flow, and getClient returns no error but those of path resolution, the
\* interactive flow and the save.
C7_LoadFailureNotTerminal ==
    \A p \in Procs :
        /\ \A i \in DOMAIN trace[p] :
              (trace[p][i].ev \in { "open", "decode" } /\ trace[p][i].res # Nil) =>
                  IF i = Len(trace[p])
                  THEN pc[p] = "web"
                  ELSE trace[p][i + 1].ev = "stdout"
        /\ Returned(p) => ret[p].err.from \in ErrSources

C7_Witness ==
    \E p \in Procs :
        /\ Returned(p)
        /\ ret[p].client.kind = "client"
        /\ \E e \in Events(p) : e.ev = "decode" /\ e.res = "syntax"

\* C8: when the interactive flow has produced a token and the save fails,
\* getClient returns the save error and no client.
C8_SaveFailure ==
    \A p \in Procs : \A e \in Events(p) :
        (e.ev \in { "create", "write" } /\ e.res # Nil) =>
            /\ tok[p] \in ExchangeTokens
            /\ pc[p] \in { "close", "idle" }
            /\ pc[p] = "idle" =>
                 /\ Returned(p)
                 /\ ret[p].client = NoClient
                 /\ ret[p].err =
                      Err("saveToken", IF e.ev = "create" THEN e.res ELSE "write")

C8_Witness ==
    \E p \in Procs :
        /\ Returned(p)
        /\ \E e \in Events(p) : e.ev = "create" /\ e.res = "EACCES"
        /\ tok[p] \in ExchangeTokens

\* C9: once saveToken has written a token to a path, the file at the path
\* opens, decodes, and yields a record with the same access credential,
\* refresh credential, type and expiry, whatever the file held before.
C9_RoundTrip ==
    \A p \in Procs :
        SavedNow(p) =>
            /\ OpenErr(cacheFile[p], dir, files) = Nil
            /\ LoadErr(cacheFile[p], files) = Nil
            /\ SameToken(DecodeTok(files[cacheFile[p].base].data), tok[p])

C9_Witness ==
    \E p \in Procs :
        /\ SavedNow(p)
        /\ FileAtCall(p).kind = "file"
        /\ FileAtCall(p).data = GARBAGE
        /\ tok[p].refresh = ""
        /\ tok[p].expiry.mono
        /\ DecodeTok(files[cacheFile[p].base].data) # tok[p]

\* C10: tokenFromFile on a path where no file exists fails in os.Open with
\* the not-found error, decodes nothing and yields no token record.
C10_MissingFile ==
    \A p \in Procs :
        (Did(p, "open") /\ MissingAtCall(p)) =>
            /\ trace[p][1] = Ev("open", Nil, "ENOENT")
            /\ ~Did(p, "decode")
            /\ pc[p] = "web" => (tok[p] = NoTok /\ fh[p] = "nil")

C10_Witness ==
    \E p \in Procs :
        /\ pc[p] = "web"
        /\ MissingAtCall(p)
        /\ dir # "absent"
        /\ trace[p] = << Ev("open", Nil, "ENOENT") >>

\* A directory mode that gives nothing to group and others.
OwnerOnly == { "0700", "0500" }

\* C11 as stated: after every successful tokenCacheFile the .credentials
\* directory exists with owner-only permissions.
C11_Original ==
    \A p \in Procs : Resolved(p) => dir \in OwnerOnly

\* C11, amended: the path tokenCacheFile returns depends on the logical
\* name alone; after a successful call a directory that was absent has been
\* made with mode 0700 or is still absent (the error of MkdirAll is
\* dropped), and a directory that existed keeps the mode it had.
C11_PathAndDirectory ==
    \A p \in Procs :
        Resolved(p) =>
            /\ cacheFile[p] = Join(HomeDir \o << ".credentials" >>,
                                   QueryEscape(tokenFile[p]))
            /\ \A q \in Procs :
                  (Resolved(q) /\ tokenFile[q] = tokenFile[p])
                      => cacheFile[q] = cacheFile[p]
            /\ pre[p].dir = "absent" => dir \in { "0700", "absent" }
            /\ pre[p].dir # "absent" => dir = pre[p].dir

C11_Witness ==
    \E p \in Procs :
        /\ Resolved(p)
        /\ pre[p].dir = "absent"
        /\ dir = "0700"
        /\ tokenFile[p] = << "a" >>

\* C12: when the secret blob is no valid configuration, CreateClient
\* returns the parse error without calling getClient: the directory is not
\* made, no cache file is opened or written, and no interactive step runs.
C12_ConfigErrorFirst ==
    \A p \in Procs :
        configErr[p] = "config" =>
            /\ pc[p] = "idle"
            /\ CreateClientRet(p) = [client |-> NoClient,
                                     err |-> Err("CreateClient", "config")]
            /\ ret[p] = NoRet
            /\ trace[p] = <<>>
            /\ cacheFile[p] = NoPath
            /\ fh[p] = "none"
            /\ dir = pre[p].dir
            /\ files = pre[p].files

C12_Witness ==
    \E p \in Procs :
        /\ configErr[p] = "config"
        /\ pre[p].dir = "absent"
        /\ dir = "absent"
        /\ tokenFile[p] = << "a" >>

\* ------------------------------------------------ concurrent invocations
\* The cache file the two processes share.
SharedFile == CachePath(SharedName).base

\* Both invocations took the cache-miss path, saved, and returned a client.
BothSaved ==
    \A p \in Procs :
        /\ Returned(p)
        /\ ret[p].client.kind = "client"
        /\ SavedNow(p)

\* C13 as stated: once two concurrent cache-miss flows for the same name
\* have both finished successfully, the cache file holds exactly the
\* document of the saveToken that returned last, and loads as its token.
C13_Original ==
    BothSaved =>
        /\ files[SharedFile].data = Encode(lastSaved[SharedFile].completed)
        /\ SameToken(DecodeTok(files[SharedFile].data),
                     lastSaved[SharedFile].completed)

\* C13: once two concurrent cache-miss flows for the same name have both
\* finished successfully, the cache file opens and loads as the token of
\* the write that was performed last: the file begins with that token's
\* document, and what may follow it is the tail of a longer document
\* written before.
C13_LastWriterWins ==
    BothSaved =>
        /\ files[SharedFile].kind = "file"
        /\ OpenErr(CachePath(SharedName), dir, files) = Nil
        /\ LoadErr(CachePath(SharedName), files) = Nil
        /\ files[SharedFile].data.kind \in { "object", "overwritten" }
        /\ files[SharedFile].data.fields =
             Encode(lastSaved[SharedFile].written).fields
        /\ SameToken(DecodeTok(files[SharedFile].data),
                     lastSaved[SharedFile].written)

C13_Witness ==
    /\ BothSaved
    /\ files[SharedFile].data.kind = "overwritten"
    /\ ~SameToken(lastSaved[SharedFile].written, lastSaved[SharedFile].completed)
    /\ tok["p1"] # tok["p2"]

\* -------------------------------------------------- the interactive flow
\* C14: in one invocation the consent URL is presented (printed, or handed
\* to the browser) before the code is read, the exchange comes right after
\* the one successful read of the code and happens at most once, and a
\* failed read of the code ends the invocation with that error: no
\* exchange, no save, no change to any file.
C14_StrictSequence ==
    \A p \in Procs :
        /\ Count(p, "scan") <= 1
        /\ Count(p, "exchange") <= 1
        /\ \A i \in DOMAIN trace[p] :
              /\ trace[p][i].ev = "scan" =>
                    URLShownBefore(p, i) \/ LaunchedBefore(p, i)
              /\ trace[p][i].ev = "exchange" =>
                    /\ i > 1
                    /\ trace[p][i - 1] = Ev("scan", trace[p][i].arg, Nil)
              /\ trace[p][i] = Ev("scan", "", "failed") =>
                    /\ i = Len(trace[p])
                    /\ Returned(p)
                    /\ ret[p].client = NoClient
                    /\ ret[p].err = Err("getTokenFromWeb", "input")
                    /\ ~Did(p, "exchange")
                    /\ ~Wrote(p)
                    /\ files = pre[p].files

C14_Witness ==
    \E p \in Procs :
        /\ Returned(p)
        /\ \E i \in DOMAIN trace[p] :
              /\ i = Len(trace[p])
              /\ trace[p][i] = Ev("scan", "", "failed")
              /\ LaunchedBefore(p, i)

\* --------------------------------------------------------- file handles
\* The steps at which tokenFromFile or saveToken is running with the file
\* it opened.
HoldsFile == { "decode", "encode", "close" }

\* C15: a file handle is open only while tokenFromFile or saveToken is
\* running with it; once either has returned, on success, open or create
\* failure, decode failure or write failure, the handle it opened is closed
\* and a failed open or create left none.
C15_HandlesReleased ==
    \A p \in Procs :
        /\ fh[p] = "open" <=> pc[p] \in HoldsFile
        /\ (Did(p, "decode") /\ ~Did(p, "create")) => fh[p] = "closed"
        /\ (Did(p, "write") /\ pc[p] # "close") => fh[p] = "closed"
        /\ (trace[p] # << >> /\ trace[p][Len(trace[p])].ev \in { "open", "create" }
              /\ trace[p][Len(trace[p])].res # Nil) => fh[p] = "nil"

C15_Witness ==
    \E p \in Procs :
        /\ Returned(p)
        /\ fh[p] = "closed"
        /\ \E e \in Events(p) : e.ev = "decode" /\ e.res # Nil
        /\ \E e \in Events(p) : e.ev = "write" /\ e.res # Nil

\* ---------------------------------------------------- no partial success
\* C16: getClient returns an error and no client, or a client and no
\* error; and when a single process gets a client, the cache file at the
\* resolved path exists, opens, and decodes to the token the client was
\* built from.
C16_NoPartialSuccess ==
    Returned(Main) =>
        \/ /\ ret[Main].client = NoClient
           /\ ret[Main].err # NoErr
        \/ /\ ret[Main].client.kind = "client"
           /\ ret[Main].err = NoErr
           /\ ~IsDirPath(cacheFile[Main])
           /\ files[cacheFile[Main].base].kind = "file"
           /\ OpenErr(cacheFile[Main], dir, files) = Nil
           /\ LoadErr(cacheFile[Main], files) = Nil
           /\ SameToken(DecodeTok(files[cacheFile[Main].base].data),
                        ret[Main].client.tok)

C16_Witness ==
    /\ Returned(Main)
    /\ ret[Main].client.kind = "client"
    /\ SavedNow(Main)
    /\ FileAtCall(Main).kind = "file"
    /\ ret[Main].client.tok.refresh # ""

\* ------------------------------------------------------ the resolved path
\* C17: the path tokenCacheFile returns is a file directly inside the
\* credentials directory, whatever the logical name: never the directory
\* itself, never a place outside it.
C17_DirectChild ==
    \A p \in Procs :
        (Resolved(p) /\ cacheFile[p] # NoPath) =>
            /\ cacheFile[p].dir = tokenCacheDir
            /\ cacheFile[p].base # << >>

\* -------------------------------------------------------- cache isolation
\* The cache files of the other logical names.
OtherFiles(p) ==
    { CachePath(n).base : n \in { m \in Names \ { tokenFile[p] } : ~IsDirPath(CachePath(m)) } }

\* The invocation returned a client without the interactive flow.
Hit(p) == Returned(p) /\ ret[p].client.kind = "client" /\ ~Interactive(p)

\* C18: distinct names have distinct cache files; an invocation for a name
\* leaves the cache file of every other name as it was at the call, on
\* every path; a cache hit returns what the name's own file held at the
\* call, and returns a token of the interactive flow only for a name under
\* which an earlier invocation has saved one.
C18_Isolation ==
    /\ \A a, b \in Names :
          (a # b /\ ~IsDirPath(CachePath(a))) => CachePath(a) # CachePath(b)
    /\ \A p \in Procs :
          /\ (pc[p] # "idle" \/ Returned(p)) =>
                \A f \in OtherFiles(p) : files[f] = pre[p].files[f]
          /\ Hit(p) =>
                /\ cacheFile[p] = CachePath(tokenFile[p])
                /\ ret[p].client.tok = DecodeTok(FileAtCall(p).data)
                /\ ret[p].client.tok.access \in IssuedAccess =>
                      tokenFile[p] \in pre[p].persisted

C18_Witness ==
    \E p \in Procs :
        /\ Hit(p)
        /\ ret[p].client.tok.access \in IssuedAccess
        /\ \E n \in pre[p].persisted : n # tokenFile[p]
        /\ \E f \in OtherFiles(p) : files[f].kind = "file"

============================================================================
